---- MODULE Spec2Model ----
(***************************************************************************)
(* Football MVP Selector Agent: the input parser (utils/input_parser.py),  *)
(* the statistics client (utils/api_client.py), the MVP tool               *)
(* (tools/football_tools.py) and the interactive loop (main.py).           *)
(*                                                                         *)
(* Text is a sequence of one-character strings.  A JSON object is a record *)
(* or function of its keys; a key holding null is left out of it.          *)
(***************************************************************************)
EXTENDS Integers, Sequences, FiniteSets, TLC

VARIABLES
    pc,            \* position of the program being run
    typed,         \* what the user typed, as the pieces of a query line
    input_text,    \* parse_user_input's argument
    parsed_input,  \* parse_user_input's return value
    call,          \* the client or tool operation called, with its arguments
    net,           \* what requests.get did for the call's request
    mvp,           \* determine_mvp's locals while it waits for llm.invoke
    llm_reply,     \* what llm.invoke did
    ret,           \* what the call returned or raised
    environ,       \* the configuration values of the environment
    stdin,         \* the console: "open", or "eof" once input() has met its end
    seen,          \* the last of an exit keyword, end of input or interrupt, if any
    prompts,       \* the number of input() calls made
    printed,       \* the last message shown to the user
    tools_run,     \* the tools that have returned for the query being processed
    agent_fixture_id,   \* the fixture id the agent took from validate_match
    fixtures_requests,  \* the fixtures-by-date requests issued for the query
    players_requests,   \* the fixtures/players requests issued for the query
    llm_calls,     \* the llm.invoke calls determine_mvp made for the query
    pending        \* the requests and model calls issued and not yet completed

parseVars == <<typed, input_text, parsed_input>>
callVars == <<call, net, mvp, llm_reply, ret>>
queryVars ==
    <<tools_run, agent_fixture_id, fixtures_requests, players_requests, llm_calls, pending>>
loopVars == <<environ, stdin, seen, prompts, printed>>
vars == <<pc, parseVars, callVars, queryVars, loopVars>>

(***************************************************************************)
(* Bounds of the model.                                                    *)
(***************************************************************************)
MaxNameLen == 2
MaxWs == 2
MaxFixtures == 2
MaxPlayers == 2
MaxPrompts == 2

(***************************************************************************)
(* Text helpers: str.strip(), str.lower(), the regex classes \s and \d.    *)
(***************************************************************************)
Ws == {" ", "\t"}
Digit == {"0", "1", "2", "3", "4", "5", "6", "7", "8", "9"}

LowerMap ==
    [A |-> "a", B |-> "b", C |-> "c", D |-> "d", E |-> "e", F |-> "f",
     G |-> "g", H |-> "h", I |-> "i", J |-> "j", K |-> "k", L |-> "l",
     M |-> "m", N |-> "n", O |-> "o", P |-> "p", Q |-> "q", R |-> "r",
     S |-> "s", T |-> "t", U |-> "u", V |-> "v", W |-> "w", X |-> "x",
     Y |-> "y", Z |-> "z"]

lower(s) ==
    [k \in 1..Len(s) |-> IF s[k] \in DOMAIN LowerMap THEN LowerMap[s[k]] ELSE s[k]]

strip(s) ==
    LET inked == {k \in 1..Len(s) : s[k] \notin Ws}
    IN  IF inked = {} THEN <<>>
        ELSE LET lo == CHOOSE k \in inked : \A j \in inked : k <= j
                 hi == CHOOSE k \in inked : \A j \in inked : k >= j
             IN  SubSeq(s, lo, hi)

\* The literal lit stands in s at position p.
LitAt(s, p, lit) ==
    /\ p >= 1
    /\ p + Len(lit) - 1 <= Len(s)
    /\ \A k \in 1..Len(lit) : s[p + k - 1] = lit[k]

\* \s{w} stands in s at position p.
WsRun(s, p, w) ==
    /\ p + w - 1 <= Len(s)
    /\ \A k \in p..(p + w - 1) : s[k] \in Ws

\* The longest run of \s in s from position p on (0 when s[p] is no space).
WsRunMax(s, p) ==
    IF p > Len(s) \/ s[p] \notin Ws THEN 0
    ELSE LET runs == {w \in 1..(Len(s) - p + 1) : WsRun(s, p, w)}
         IN  CHOOSE w \in runs : \A v \in runs : w >= v

\* A date pattern that also wants a month of 01 to 12.
DateAtCalendar(s, p) ==
    /\ p >= 1
    /\ p + 9 <= Len(s)
    /\ \A k \in 0..9 : IF k \in {4, 7} THEN s[p + k] = "-" ELSE s[p + k] \in Digit
    /\ \/ s[p + 5] = "0" /\ s[p + 6] # "0"
       \/ s[p + 5] = "1" /\ s[p + 6] \in {"0", "1", "2"}

\* (\d{4}-\d{2}-\d{2}) stands in s at position p.
DateAt(s, p) ==
    /\ p >= 1
    /\ p + 9 <= Len(s)
    /\ \A k \in 0..9 : IF k \in {4, 7} THEN s[p + k] = "-" ELSE s[p + k] \in Digit

(***************************************************************************)
(* The pattern of parse_user_input, matched as re.match does: anchored at  *)
(* the start only, alternatives tried in order, \s+ greedy (longest run    *)
(* first), .+? lazy (shortest first), backtracking to the first success.   *)
(***************************************************************************)
VsAlts == << <<"v", "s">>, <<"V", "S">>, <<"v">>, <<"V">> >>
OnAlts == << <<"o", "n">>, <<"O", "N">> >>

\* The first of a set of <<greedy run, alternative, greedy run>> choices in
\* backtracking order.
FirstTry(cands) ==
    CHOOSE c \in cands : \A d \in cands :
        \/ c[1] > d[1]
        \/ c[1] = d[1] /\ c[2] < d[2]
        \/ c[1] = d[1] /\ c[2] = d[2] /\ c[3] >= d[3]

\* \s+(?:on|ON)\s+(\d{4}-\d{2}-\d{2}) from position p: where the date starts,
\* 0 when there is no match.  (A value computed once is bound by a singleton
\* set, so that it is not computed again at each of its uses.)
OnTail(s, p) ==
    CHOOSE r \in {
        IF cands = {} THEN 0
        ELSE CHOOSE d \in {p + c[1] + Len(OnAlts[c[2]]) + c[3] : c \in {FirstTry(cands)}} : TRUE
        : cands \in {UNION {
            IF LitAt(s, p + w, OnAlts[a])
            THEN {<<w, a, x>> : x \in {x \in 1..WsRunMax(s, p + w + Len(OnAlts[a])) :
                                          DateAt(s, p + w + Len(OnAlts[a]) + x)}}
            ELSE {} : w \in 1..WsRunMax(s, p), a \in 1..Len(OnAlts)}}} : TRUE

\* (.+?) from position p followed by OnTail: <<end of the group, start of the
\* date>>, <<>> when there is no match.
Group2(s, p) ==
    CHOOSE r \in {
        IF tails = {} THEN <<>>
        ELSE CHOOSE x \in tails : \A y \in tails : x[1] <= y[1]
        : tails \in {{t \in {<<e, OnTail(s, e + 1)>> : e \in p..Len(s)} : t[2] # 0}}} : TRUE

\* \s+(?:vs|VS|v|V)\s+(.+?)... from position p: <<start of group 2, end of
\* group 2, start of the date>>, <<>> when there is no match.
VsTail(s, p) ==
    CHOOSE r \in {
        IF cands = {} THEN <<>>
        ELSE CHOOSE t \in {<<p + c[1] + Len(VsAlts[c[2]]) + c[3]>> \o c[4] :
                               c \in {FirstTry(cands)}} : TRUE
        : cands \in {UNION {
            IF LitAt(s, p + w, VsAlts[a])
            THEN {c \in {<<w, a, x, Group2(s, p + w + Len(VsAlts[a]) + x)>> :
                             x \in 1..WsRunMax(s, p + w + Len(VsAlts[a]))} : c[4] # <<>>}
            ELSE {} : w \in 1..WsRunMax(s, p), a \in 1..Len(VsAlts)}}} : TRUE

\* re.match(pattern, s): the three groups, <<>> when there is no match.
ReMatch(s) ==
    CHOOSE r \in {
        IF tails = {} THEN <<>>
        ELSE CHOOSE m \in {<<SubSeq(s, 1, t[1]), SubSeq(s, t[2][1], t[2][2]),
                             SubSeq(s, t[2][3], t[2][3] + 9)>> :
                               t \in {CHOOSE x \in tails : \A y \in tails : x[1] <= y[1]}} : TRUE
        : tails \in {{t \in {<<e, VsTail(s, e + 1)>> : e \in 1..Len(s)} : t[2] # <<>>}}} : TRUE

\* Python's None; the tuple (team1, team2, date) is a record of its three items.
None == [none |-> TRUE]

parse_user_input(text) ==
    CHOOSE r \in {
        IF s = <<>> THEN None
        ELSE CHOOSE q \in {
                 IF m = <<>> THEN None
                 ELSE [team1 |-> strip(m[1]), team2 |-> strip(m[2]), date |-> strip(m[3])]
                 : m \in {ReMatch(s)}} : TRUE
        : s \in {strip(text)}} : TRUE

(***************************************************************************)
(* The query lines tried on the parser: a line is built from its pieces,   *)
(* so that the pieces a claim speaks of are known.                         *)
(***************************************************************************)
NameAlphabet == {"a", "v", " "}

Names == UNION {[1..k -> NameAlphabet] : k \in 1..MaxNameLen}

Team2Names == {<<"b">>, <<" ">>, <<" ", "b", " ", "b", " ">>}

VsTyped == {<<"v", "s">>, <<"V", "S">>, <<"V", "s">>, <<"v", "S">>, <<"v">>, <<"V">>, <<>>}
OnTyped == {<<"o", "n">>, <<"O", "N">>, <<"O", "n">>, <<"o", "N">>, <<>>}
DateTyped ==
    {<<"2", "0", "2", "4", "-", "1", "3", "-", "9", "9">>,
     <<"2", "0", "2", "3", "-", "1", "-", "2", "8">>}
TrailTyped == {<<>>, <<"9">>}

Spaces(n) == [k \in 1..n |-> " "]

Typed ==
    [team1 : Names, gap : 1..MaxWs, vs : VsTyped, team2 : Team2Names,
     on : OnTyped, date : DateTyped, trail : TrailTyped]

Render(t) ==
    t.team1 \o Spaces(t.gap) \o t.vs \o Spaces(t.gap) \o t.team2
        \o Spaces(t.gap) \o t.on \o Spaces(t.gap) \o t.date \o t.trail

NoTyped == [gap |-> 0]

NoCall == [op |-> "none"]
NoNet == [kind |-> "none"]
NoLocals == [done |-> TRUE]
NoReply == [tag |-> "none"]

NoEnviron == [RAPID_API_KEY |-> "", RAPID_API_HOST |-> "", GOOGLE_API_KEY |-> ""]

QueryIdle ==
    /\ tools_run = <<>>
    /\ agent_fixture_id = 0
    /\ fixtures_requests = 0
    /\ players_requests = 0
    /\ llm_calls = 0
    /\ pending = 0

LoopIdle ==
    /\ environ = NoEnviron
    /\ stdin = "open"
    /\ seen = "none"
    /\ prompts = 0
    /\ printed = "none"

CallIdle ==
    /\ QueryIdle
    /\ LoopIdle
    /\ call = NoCall
    /\ net = NoNet
    /\ mvp = NoLocals
    /\ llm_reply = NoReply
    /\ ret = None

InitParse ==
    /\ CallIdle
    /\ typed \in Typed
    /\ input_text = Render(typed)
    /\ parsed_input = None
    /\ pc = "parse_call"

ParseCall ==
    /\ pc = "parse_call"
    /\ parsed_input' = parse_user_input(input_text)
    /\ pc' = "parse_return"
    /\ UNCHANGED <<typed, input_text, callVars, queryVars, loopVars>>

NextParse == ParseCall

SpecParse == InitParse /\ [][NextParse]_vars

(***************************************************************************)
(* The grammar of the parser's contract, read off a whole line:            *)
(*   <team1> (vs|v) <team2> on <YYYY-MM-DD>                                *)
(* with the separators in any letter case, set off by white space, both    *)
(* team names holding a visible character and the date ending the line.    *)
(***************************************************************************)
VsWords == {<<"v", "s">>, <<"v">>}
OnWord == <<"o", "n">>

GrammarWhole(text) ==
    LET s == strip(text)
        l == lower(s)
        n == Len(s)
    IN  \E e1 \in 1..n : \E w1 \in 1..n : \E sep \in VsWords :
            /\ WsRun(s, e1 + 1, w1)
            /\ LitAt(l, e1 + 1 + w1, sep)
            /\ \E w2 \in 1..n :
                /\ WsRun(s, e1 + 1 + w1 + Len(sep), w2)
                /\ LET g2 == e1 + 1 + w1 + Len(sep) + w2
                   IN  \E e2 \in g2..n :
                        /\ s[g2] \notin Ws
                        /\ s[e2] \notin Ws
                        /\ \E w3 \in 1..n :
                            /\ WsRun(s, e2 + 1, w3)
                            /\ LitAt(l, e2 + 1 + w3, OnWord)
                            /\ \E w4 \in 1..n :
                                /\ WsRun(s, e2 + 3 + w3, w4)
                                /\ DateAt(s, e2 + 3 + w3 + w4)
                                /\ e2 + 3 + w3 + w4 + 9 = n

\* A team name as the grammar reads it: it holds a visible character and runs
\* up to the next separator, so no later word of it is a separator itself.
TeamName(name) ==
    LET t == strip(name)
        l == lower(t)
    IN  /\ t # <<>>
        /\ \A p \in 2..Len(t) : \A sep \in VsWords :
               ~ /\ t[p - 1] \in Ws
                 /\ LitAt(l, p, sep)
                 /\ (p + Len(sep) > Len(t) \/ t[p + Len(sep)] \in Ws)

\* YYYY-MM-DD: digits and hyphens, whatever the digits are.
IsDate(d) ==
    /\ Len(d) = 10
    /\ \A k \in 1..10 : IF k \in {5, 8} THEN d[k] = "-" ELSE d[k] \in Digit

\* The line has the form "<A> vs <B> on <YYYY-MM-DD>".
VsOnForm(t) ==
    /\ t.vs = <<"v", "s">>
    /\ t.on = <<"o", "n">>
    /\ IsDate(t.date)
    /\ t.trail = <<>>
    /\ TeamName(t.team1)
    /\ TeamName(t.team2)
    /\ \A p \in 1..(Len(t.team2) - 9) : ~IsDate(SubSeq(t.team2, p, p + 9))

\* C5: a line "<A> vs <B> on <YYYY-MM-DD>" with team names A and B parses to
\* exactly (A trimmed, B trimmed, the date), whatever the date's digits are.
C5_ParseWellFormed ==
    (pc = "parse_return" /\ VsOnForm(typed))
        => parsed_input = [team1 |-> strip(typed.team1), team2 |-> strip(typed.team2),
                            date |-> typed.date]

\* C5 witness: a line with padded team names and the date 2024-13-99 was parsed.
C5_Witness ==
    /\ pc = "parse_return"
    /\ VsOnForm(typed)
    /\ typed.team1 # strip(typed.team1)
    /\ typed.team2 # strip(typed.team2)
    /\ typed.date = <<"2", "0", "2", "4", "-", "1", "3", "-", "9", "9">>
    /\ parsed_input # None

\* C6: a line that does not match the grammar as a whole parses to None.
C6_ParseRejectsMalformed ==
    (pc = "parse_return" /\ ~GrammarWhole(input_text)) => parsed_input = None

\* C7: a well-formed line parses to the same triple in every letter case of
\* its separators as with the separators in lower case.
C7_SeparatorCaseInsensitive ==
    (pc = "parse_return" /\ GrammarWhole(input_text))
        => /\ parsed_input # None
           /\ parsed_input =
                parse_user_input(Render([typed EXCEPT !.vs = lower(typed.vs),
                                                      !.on = lower(typed.on)]))

(***************************************************************************)
(* The statistics client.  A JSON string is Str(text), a JSON array or     *)
(* object is List(items); a dict is a record of its keys.  A call ends by  *)
(* returning a value or by raising an exception.                           *)
(***************************************************************************)
Str(x) == [str |-> x]
List(x) == [list |-> x]
IsStr(v) == "str" \in DOMAIN v

\* bool(v) and len(v) of an errors value.
Truthy(v) == IF IsStr(v) THEN v.str # "" ELSE v.list # <<>>
PyLen(v) == IF IsStr(v) THEN 1 ELSE Len(v.list)

Return(v) == [tag |-> "return", value |-> v]
Raise(e) == [tag |-> "raise", exc |-> e]

\* What requests.get can do: raise Timeout, ConnectionError or another
\* RequestException, or give a response with a status and a body that is JSON
\* or not.
Malformed == [malformed |-> TRUE]
HttpResponse(status, body) == [kind |-> "response", status |-> status, body |-> body]

\* _make_request without its last status check: a status other than 200, 401,
\* 403 and 429 falls through to the success case.
_make_request_unchecked(got) ==
    IF got.kind = "timeout" THEN Return([errors |-> Str("Request timeout")])
    ELSE IF got.kind = "connection" THEN Return([errors |-> Str("Connection error")])
    ELSE IF got.kind = "request_exception" THEN Return([errors |-> Str("Request failed")])
    ELSE IF got.status = 401 THEN Return([errors |-> Str("Authentication failed")])
    ELSE IF got.status = 403 THEN Return([errors |-> Str("Access denied")])
    ELSE IF got.status = 429 THEN Return([errors |-> Str("Rate limit exceeded")])
    ELSE IF got.body = Malformed THEN Return([errors |-> Str("Request failed")])
    ELSE Return(got.body)

_make_request(got) ==
    IF got.kind = "timeout" THEN Return([errors |-> Str("Request timeout")])
    ELSE IF got.kind = "connection" THEN Return([errors |-> Str("Connection error")])
    ELSE IF got.kind = "request_exception" THEN Return([errors |-> Str("Request failed")])
    ELSE IF got.status = 401 THEN Return([errors |-> Str("Authentication failed")])
    ELSE IF got.status = 403 THEN Return([errors |-> Str("Access denied")])
    ELSE IF got.status = 429 THEN Return([errors |-> Str("Rate limit exceeded")])
    ELSE IF got.status # 200 THEN Return([errors |-> Str("HTTP error")])
    ELSE IF got.body = Malformed THEN Return([errors |-> Str("Request failed")])
    ELSE Return(got.body)

\* The two checks of the response that find_fixture and get_player_stats share.
HasErrors(response) ==
    \/ "errors" \in DOMAIN response /\ IsStr(response.errors)
    \/ /\ "errors" \in DOMAIN response
       /\ Truthy(response.errors)
       /\ PyLen(response.errors) > 0

\* response.get("response", [])
Payload(response) ==
    IF "response" \in DOMAIN response THEN response.response ELSE <<>>

\* needle in hay
Contains(needle, hay) ==
    \E p \in 1..(Len(hay) - Len(needle) + 1) : LitAt(hay, p, needle)

\* The test of find_fixture's loop body without its second disjunct.
TeamsMatchHomeFirst(fixture, team1, team2) ==
    /\ Contains(lower(team1), lower(fixture.teams.home.name))
    /\ Contains(lower(team2), lower(fixture.teams.away.name))

\* The test of find_fixture's loop body on one fixture.
TeamsMatch(fixture, team1, team2) ==
    LET home_team == lower(fixture.teams.home.name)
        away_team == lower(fixture.teams.away.name)
        team1_lower == lower(team1)
        team2_lower == lower(team2)
    IN  \/ Contains(team1_lower, home_team) /\ Contains(team2_lower, away_team)
        \/ Contains(team1_lower, away_team) /\ Contains(team2_lower, home_team)

\* not fixture.get("teams")
LacksTeams(fixture) == "teams" \notin DOMAIN fixture

\* find_fixture's loop over fixtures, from the k-th on.
RECURSIVE ScanFixtures(_, _, _, _)
ScanFixtures(fixtures, k, team1, team2) ==
    IF k > Len(fixtures) THEN None
    ELSE IF LacksTeams(fixtures[k]) THEN ScanFixtures(fixtures, k + 1, team1, team2)
    ELSE IF TeamsMatch(fixtures[k], team1, team2) THEN fixtures[k]
    ELSE ScanFixtures(fixtures, k + 1, team1, team2)

find_fixture(team1, team2, date, got) ==
    LET r == _make_request(got)
    IN  IF r.tag = "raise" THEN r
        ELSE IF HasErrors(r.value) THEN Return(None)
        ELSE Return(ScanFixtures(Payload(r.value), 1, team1, team2))

get_player_stats(fixture_id, got) ==
    LET r == _make_request(got)
    IN  IF r.tag = "raise" THEN r
        ELSE IF HasErrors(r.value) THEN Return(<<>>)
        ELSE Return(Payload(r.value))

(***************************************************************************)
(* The MVP tool.  A JSON object is a function of its keys; a key whose     *)
(* value is null is left out, which dict.get reads the same way.  A        *)
(* formatted string is the sequence of the pieces it is built from.        *)
(***************************************************************************)
EmptyDict == [k \in {} |-> 0]

Has(d, k) == k \in DOMAIN d

\* d.get(k, {})
Sub(d, k) == IF Has(d, k) THEN d[k] ELSE EmptyDict

\* d.get(k) or 0
GetOr0(d, k) == IF Has(d, k) /\ d[k] # 0 THEN d[k] ELSE 0

\* team.get("players", [])
PlayersOf(team) == IF Has(team, "players") THEN team.players ELSE <<>>

\* player.get("statistics") and len(player["statistics"]) > 0
HasStatistics(player) == Has(player, "statistics") /\ Len(player.statistics) > 0

\* determine_mvp's played_minutes of one player.
PlayedMinutes(player) ==
    IF HasStatistics(player)
    THEN LET games == Sub(player.statistics[1], "games")
         IN  IF Has(games, "minutes") /\ games.minutes > 0 THEN games.minutes ELSE 0
    ELSE 0

MinMinutes == 5

\* The test with >= for >.
KeptFromMinMinutes(player) == PlayedMinutes(player) >= MinMinutes

\* The test that appends a player to filtered_players_list.
Kept(player) == PlayedMinutes(player) > MinMinutes

\* The inner loop counting a player in total_players only when it drops him.
RECURSIVE FilterPlayersMiscount(_, _, _)
FilterPlayersMiscount(players, k, acc) ==
    IF k > Len(players) THEN acc
    ELSE FilterPlayersMiscount(players, k + 1,
            IF Kept(players[k])
            THEN [list |-> Append(acc.list, players[k]),
                  total_players |-> acc.total_players,
                  filtered_players |-> acc.filtered_players + 1]
            ELSE [acc EXCEPT !.total_players = @ + 1])

\* determine_mvp's inner loop over one team's players from the k-th on; acc
\* holds filtered_players_list, total_players and filtered_players.
RECURSIVE FilterPlayers(_, _, _)
FilterPlayers(players, k, acc) ==
    IF k > Len(players) THEN acc
    ELSE FilterPlayers(players, k + 1,
            IF Kept(players[k])
            THEN [list |-> Append(acc.list, players[k]),
                  total_players |-> acc.total_players + 1,
                  filtered_players |-> acc.filtered_players + 1]
            ELSE [acc EXCEPT !.total_players = @ + 1])

\* team.copy() with its "players" set to the list.
TeamCopy(team, list) ==
    [k \in DOMAIN team \cup {"players"} |-> IF k = "players" THEN list ELSE team[k]]

\* determine_mvp's outer loop over the teams from the t-th on; acc holds
\* filtered_stats, total_players and filtered_players.
RECURSIVE FilterLoop(_, _, _)
FilterLoop(stats_data, t, acc) ==
    IF t > Len(stats_data) THEN acc
    ELSE LET inner == FilterPlayers(PlayersOf(stats_data[t]), 1,
                         [list |-> <<>>,
                          total_players |-> acc.total_players,
                          filtered_players |-> acc.filtered_players])
         IN  FilterLoop(stats_data, t + 1,
                [filtered_stats |->
                    Append(acc.filtered_stats, TeamCopy(stats_data[t], inner.list)),
                 total_players |-> inner.total_players,
                 filtered_players |-> inner.filtered_players])

FilterStats(stats_data) ==
    FilterLoop(stats_data, 1,
        [filtered_stats |-> <<>>, total_players |-> 0, filtered_players |-> 0])

\* One player's paragraph of _create_player_summary.
PlayerSummary(player) ==
    LET stats == IF Has(player, "statistics") /\ player.statistics # <<>>
                 THEN player.statistics[1] ELSE EmptyDict
        games == Sub(stats, "games")
        goals_stats == Sub(stats, "goals")
        passes_stats == Sub(stats, "passes")
        tackles_stats == Sub(stats, "tackles")
        duels_stats == Sub(stats, "duels")
        shots_stats == Sub(stats, "shots")
        cards_stats == Sub(stats, "cards")
        minutes == GetOr0(games, "minutes")
        position == IF Has(games, "position") /\ games.position # ""
                    THEN games.position ELSE "Unknown"
        rating == IF Has(games, "rating") /\ games.rating # 0
                  THEN ToString(games.rating) ELSE "N/A"
        goals == GetOr0(goals_stats, "total")
        assists == GetOr0(goals_stats, "assists")
        saves == GetOr0(goals_stats, "saves")
        shots_total == GetOr0(shots_stats, "total")
        shots_on_target == GetOr0(shots_stats, "on")
        passes_total == GetOr0(passes_stats, "total")
        key_passes == GetOr0(passes_stats, "key")
        tackles_total == GetOr0(tackles_stats, "total")
        interceptions == GetOr0(tackles_stats, "interceptions")
        duels_total == GetOr0(duels_stats, "total")
        duels_won == GetOr0(duels_stats, "won")
        yellow_cards == GetOr0(cards_stats, "yellow")
        red_cards == GetOr0(cards_stats, "red")
    IN  <<"* ", player.player.name, " (", position, ") - ", ToString(minutes), "min">>
        \o (IF rating # "N/A" THEN <<", Rating: ", rating>> ELSE <<>>)
        \o (IF goals > 0 THEN <<", Goals: ", ToString(goals)>> ELSE <<>>)
        \o (IF assists > 0 THEN <<", Assists: ", ToString(assists)>> ELSE <<>>)
        \o (IF saves > 0 THEN <<", Saves: ", ToString(saves)>> ELSE <<>>)
        \o <<"\n">>
        \o (IF shots_total > 0 \/ passes_total > 0
            THEN <<"  Attack: ", ToString(shots_total), " shots (",
                   ToString(shots_on_target), " on target), ",
                   ToString(passes_total), " passes">>
                 \o (IF Has(passes_stats, "accuracy")
                     THEN <<" (", ToString(passes_stats.accuracy), "% acc)">> ELSE <<>>)
                 \o (IF key_passes > 0
                     THEN <<", ", ToString(key_passes), " key passes">> ELSE <<>>)
                 \o <<"\n">>
            ELSE <<>>)
        \o (IF tackles_total > 0 \/ interceptions > 0 \/ duels_total > 0
            THEN <<"  Defense: ", ToString(tackles_total), " tackles, ",
                   ToString(interceptions), " interceptions">>
                 \o (IF duels_total > 0
                     THEN <<", ", ToString(duels_won), "/", ToString(duels_total),
                            " duels won">>
                     ELSE <<>>)
                 \o <<"\n">>
            ELSE <<>>)
        \o (IF yellow_cards > 0 \/ red_cards > 0
            THEN <<"  Cards: ", ToString(yellow_cards), " yellow, ",
                   ToString(red_cards), " red\n">>
            ELSE <<>>)
        \o <<"\n">>

RECURSIVE PlayersSummary(_, _)
PlayersSummary(players, k) ==
    IF k > Len(players) THEN <<>>
    ELSE PlayerSummary(players[k]) \o PlayersSummary(players, k + 1)

RECURSIVE TeamsSummary(_, _)
TeamsSummary(stats, t) ==
    IF t > Len(stats) THEN <<>>
    ELSE <<"\n=== ", stats[t].team.name, " ===\n">>
         \o PlayersSummary(PlayersOf(stats[t]), 1)
         \o TeamsSummary(stats, t + 1)

_create_player_summary(stats_data) == TeamsSummary(stats_data, 1)

\* The prompt handed to llm.invoke: the digest between the two parts of the
\* fixed text.
PromptHead == "Based on the following player statistics summary ..."
PromptTail == "Analyze key metrics such as: ... Choose ONE player as MVP ..."

MvpPrompt(summary) == <<PromptHead>> \o summary \o <<PromptTail>>

\* determine_mvp up to llm.invoke: the locals at the call, or the value
\* returned before it.
MvpBeforeLlm(fixture_id, got) ==
    LET r == get_player_stats(fixture_id, got)
    IN  IF r.tag = "raise"
        THEN [done |-> TRUE, ret |-> Return(<<"Error analyzing MVP: ", r.exc>>)]
        ELSE IF r.value = <<>>
        THEN [done |-> TRUE,
              ret |-> Return(<<"No player statistics found for fixture ",
                               ToString(fixture_id)>>)]
        ELSE LET f == FilterStats(r.value)
             IN  [done |-> FALSE,
                  stats_data |-> r.value,
                  filtered_stats |-> f.filtered_stats,
                  total_players |-> f.total_players,
                  filtered_players |-> f.filtered_players,
                  prompt |-> MvpPrompt(_create_player_summary(f.filtered_stats))]

\* determine_mvp from llm.invoke's outcome on.
MvpAfterLlm(locals, reply) ==
    IF reply.tag = "raise" THEN Return(<<"Error analyzing MVP: ", reply.exc>>)
    ELSE Return(<<reply.value, "\n\nAnalysis based on ", ToString(locals.filtered_players),
                  " players (filtered out ",
                  ToString(locals.total_players - locals.filtered_players),
                  " who played <=5 minutes)">>)

(***************************************************************************)
(* The outcomes of requests.get tried on the client: every way the request *)
(* can fail, and the successful envelopes around a payload.                *)
(***************************************************************************)
FailedNets(payload) ==
    {[kind |-> "timeout"], [kind |-> "connection"], [kind |-> "request_exception"]}
    \cup {HttpResponse(st, b) : st \in {401, 403, 404, 429, 500},
                               b \in {Malformed, [response |-> payload]}}
    \cup {HttpResponse(200, Malformed)}
    \cup {HttpResponse(200, [errors |-> e, response |-> payload]) :
            e \in {List(<<"rateLimit">>), List(<<"token", "requests">>)}}

OkNets(payload) ==
    {HttpResponse(200, [response |-> payload]),
     HttpResponse(200, [errors |-> List(<<>>), response |-> payload])}

\* The fixtures tried: the k-th of a list has id 100 + k, and home and away
\* teams or no "teams" entry.
FixtureTeamNames == {<<"A", "b">>, <<"b", "c">>, <<"C">>}
QueryNames == {<<"a">>, <<"B">>, <<"c">>, <<"a", "b">>, <<"d">>}

TeamPairs == (FixtureTeamNames \X FixtureTeamNames) \cup {<<>>}

FixtureOf(k, pair) ==
    IF pair = <<>>
    THEN [fixture |-> [id |-> 100 + k, date |-> "2023-10-28T19:00:00+00:00"]]
    ELSE [fixture |-> [id |-> 100 + k, date |-> "2023-10-28T19:00:00+00:00"],
          teams |-> [home |-> [name |-> pair[1]], away |-> [name |-> pair[2]]]]

FixtureLists ==
    {[k \in 1..Len(pairs) |-> FixtureOf(k, pairs[k])] :
        pairs \in UNION {[1..n -> TeamPairs] : n \in 0..MaxFixtures}}

(***************************************************************************)
(* The player statistics tried.  A leaf value is written <<v>>, or <<>>    *)
(* for null.  The home team's roster is a list over a few players; the     *)
(* away team has one player over every combination of minutes, rating and  *)
(* passing figures, or no "players" entry.                                 *)
(***************************************************************************)
Opt(k, o) == IF o = <<>> THEN EmptyDict ELSE k :> o[1]

StatOf(minutes, rating, passes_total, accuracy, busy) ==
    ("games" :> (Opt("minutes", minutes) @@ Opt("rating", rating)
                 @@ (IF busy THEN "position" :> "M" ELSE EmptyDict)))
    @@ ("passes" :> (Opt("total", passes_total) @@ Opt("accuracy", accuracy)
                     @@ (IF busy THEN "key" :> 2 ELSE EmptyDict)))
    @@ (IF busy
        THEN ("goals" :> [total |-> 2, assists |-> 1, saves |-> 0])
             @@ ("shots" :> [total |-> 3, on |-> 2])
             @@ ("tackles" :> [total |-> 1, interceptions |-> 0])
             @@ ("duels" :> [total |-> 5, won |-> 3])
             @@ ("cards" :> [yellow |-> 1, red |-> 0])
        ELSE EmptyDict)

StatLists ==
    {<<StatOf(m, r, pt, pa, busy)>> :
        m \in {<<>>, <<0>>, <<3>>, <<5>>, <<6>>, <<90>>},
        r \in {<<>>, <<0>>, <<7>>},
        pt \in {<<>>, <<30>>},
        pa \in {<<>>, <<0>>, <<80>>},
        busy \in BOOLEAN}
    \cup {<<>>}

RosterStatLists ==
    {<<>>,
     <<StatOf(<<5>>, <<7>>, <<30>>, <<80>>, TRUE)>>,
     <<StatOf(<<6>>, <<>>, <<>>, <<>>, FALSE)>>,
     <<StatOf(<<90>>, <<7>>, <<30>>, <<80>>, TRUE)>>}

\* The player of a team at a place in its roster, named by team and place.
PlayerOf(t, k, statistics) ==
    [player |-> [name |-> ToString(10 * t + k)], statistics |-> statistics]

BarePlayer(t, k) == [player |-> [name |-> ToString(10 * t + k)]]

HomeTeams ==
    {[team |-> [name |-> "Home"],
      players |-> [k \in 1..Len(roster) |-> PlayerOf(1, k, roster[k])]] :
        roster \in UNION {[1..n -> RosterStatLists] : n \in 0..MaxPlayers}}

AwayTeams ==
    {[team |-> [name |-> "Away"], players |-> <<PlayerOf(2, 1, st)>>] : st \in StatLists}
    \cup {[team |-> [name |-> "Away"], players |-> <<BarePlayer(2, 1)>>],
          [team |-> [name |-> "Away"]]}

StatsLists == {<<h, a>> : h \in HomeTeams, a \in AwayTeams}

SampleStats ==
    <<[team |-> [name |-> "Home"],
       players |-> <<PlayerOf(1, 1, <<StatOf(<<90>>, <<7>>, <<30>>, <<80>>, TRUE)>>)>>],
      [team |-> [name |-> "Away"],
       players |-> <<PlayerOf(2, 1, <<StatOf(<<90>>, <<>>, <<>>, <<>>, FALSE)>>)>>]>>

SampleFixtures == <<FixtureOf(1, <<<<"A", "b">>, <<"b", "c">>>>)>>

(***************************************************************************)
(* The client's two operations, each called once on a drawn outcome of its *)
(* request.                                                                *)
(***************************************************************************)
InitClient ==
    /\ pc = "client_idle"
    /\ typed = NoTyped
    /\ input_text = <<>>
    /\ parsed_input = None
    /\ CallIdle

CallFindFixture ==
    /\ pc = "client_idle"
    /\ \E team1 \in QueryNames, team2 \in QueryNames :
       \E got \in FailedNets(SampleFixtures) \cup OkNets(SampleFixtures)
                    \cup {HttpResponse(200, [response |-> fl]) : fl \in FixtureLists} :
            /\ call' = [op |-> "find_fixture", team1 |-> team1, team2 |-> team2,
                        date |-> "2023-10-28"]
            /\ net' = got
            /\ ret' = find_fixture(team1, team2, "2023-10-28", got)
    /\ pc' = "client_done"
    /\ UNCHANGED <<parseVars, mvp, llm_reply, queryVars, loopVars>>

CallGetPlayerStats ==
    /\ pc = "client_idle"
    /\ \E got \in FailedNets(SampleStats) \cup OkNets(SampleStats) \cup OkNets(<<>>)
                    \cup {HttpResponse(200, [response |-> <<h, SampleStats[2]>>]) :
                            h \in HomeTeams} :
            /\ call' = [op |-> "get_player_stats", fixture_id |-> 101]
            /\ net' = got
            /\ ret' = get_player_stats(101, got)
    /\ pc' = "client_done"
    /\ UNCHANGED <<parseVars, mvp, llm_reply, queryVars, loopVars>>

NextClient == CallFindFixture \/ CallGetPlayerStats

SpecClient == InitClient /\ [][NextClient]_vars

\* The request of the call failed: no response, a status other than 200, a
\* body that is not JSON, or an envelope with a non-empty errors field.
Failed(got) ==
    \/ got.kind # "response"
    \/ got.status # 200
    \/ got.body = Malformed
    \/ "errors" \in DOMAIN got.body /\ got.body.errors # List(<<>>)

\* C3: when the request fails, find_fixture returns None and get_player_stats
\* returns the empty list; neither raises.
C3_FailuresDegrade ==
    (pc = "client_done" /\ Failed(net))
        => /\ call.op = "find_fixture" => ret = Return(None)
           /\ call.op = "get_player_stats" => ret = Return(<<>>)

\* C3 witness: find_fixture returned None on a status 500 whose body lists the
\* fixture asked for.
C3_Witness ==
    /\ pc = "client_done"
    /\ call.op = "find_fixture"
    /\ call.team1 = <<"a">>
    /\ call.team2 = <<"c">>
    /\ net = HttpResponse(500, [response |-> SampleFixtures])
    /\ ret = Return(None)

\* a is a substring of b, letter case aside.
SubstringAnyCase(a, b) ==
    \E p \in 0..(Len(b) - Len(a)) : \A k \in 1..Len(a) : lower(<<a[k]>>) = lower(<<b[p + k]>>)

\* The fixture's home and away names contain the two names, one each.
EitherWay(fixture, team1, team2) ==
    /\ "teams" \in DOMAIN fixture
    /\ \/ /\ SubstringAnyCase(team1, fixture.teams.home.name)
          /\ SubstringAnyCase(team2, fixture.teams.away.name)
       \/ /\ SubstringAnyCase(team2, fixture.teams.home.name)
          /\ SubstringAnyCase(team1, fixture.teams.away.name)

\* C4: on a successful fixtures query find_fixture returns the first fixture of
\* the list whose home and away names contain team1 and team2 either way, None
\* when there is none, and the same with team1 and team2 exchanged.
C4_FirstMatchEitherWay ==
    (pc = "client_done" /\ call.op = "find_fixture" /\ ~Failed(net))
        => LET fixtures == net.body.response
               hits == {k \in 1..Len(fixtures) : EitherWay(fixtures[k], call.team1, call.team2)}
           IN  /\ ret.tag = "return"
               /\ hits = {} => ret.value = None
               /\ hits # {} => ret.value = fixtures[CHOOSE k \in hits : \A j \in hits : k <= j]
               /\ ret = find_fixture(call.team2, call.team1, call.date, net)

\* C4 witness: the second fixture of the list was returned, matched with team1
\* as the away team only.
C4_Witness ==
    /\ pc = "client_done"
    /\ call.op = "find_fixture"
    /\ ~Failed(net)
    /\ ret.tag = "return"
    /\ ret.value # None
    /\ ret.value.fixture.id = 102
    /\ "teams" \in DOMAIN net.body.response[1]
    /\ SubstringAnyCase(call.team1, ret.value.teams.away.name)
    /\ ~SubstringAnyCase(call.team1, ret.value.teams.home.name)

(***************************************************************************)
(* determine_mvp, called once: it fetches the statistics, filters and      *)
(* summarises them, waits for llm.invoke and returns.                      *)
(***************************************************************************)
LlmReplies ==
    {Return("MVP: 11 - two goals and an assist"), Return(""), Raise("ResourceExhausted")}

InitMvp ==
    /\ pc = "mvp_idle"
    /\ typed = NoTyped
    /\ input_text = <<>>
    /\ parsed_input = None
    /\ CallIdle

MvpCall ==
    /\ pc = "mvp_idle"
    /\ \E got \in {HttpResponse(200, [response |-> sl]) : sl \in StatsLists}
                    \cup OkNets(<<>>)
                    \cup {[kind |-> "timeout"], HttpResponse(500, [response |-> SampleStats])} :
         LET before == MvpBeforeLlm(101, got)
         IN  /\ call' = [op |-> "determine_mvp", fixture_id |-> 101]
             /\ net' = got
             /\ IF before.done
                THEN /\ mvp' = NoLocals
                     /\ ret' = before.ret
                     /\ pc' = "mvp_done"
                ELSE /\ mvp' = before
                     /\ ret' = None
                     /\ pc' = "mvp_llm"
    /\ UNCHANGED <<parseVars, llm_reply, queryVars, loopVars>>

MvpLlm ==
    /\ pc = "mvp_llm"
    /\ \E r \in LlmReplies :
         /\ llm_reply' = r
         /\ ret' = MvpAfterLlm(mvp, r)
    /\ pc' = "mvp_done"
    /\ UNCHANGED <<parseVars, call, net, mvp, queryVars, loopVars>>

NextMvp == MvpCall \/ MvpLlm

SpecMvp == InitMvp /\ [][NextMvp]_vars

\* The player's minutes played is a number greater than 5.
MinutesOver5(player) ==
    /\ "statistics" \in DOMAIN player
    /\ player.statistics # <<>>
    /\ "games" \in DOMAIN player.statistics[1]
    /\ "minutes" \in DOMAIN player.statistics[1].games
    /\ player.statistics[1].games.minutes > 5

\* The names of the players a digest lists, in its order.
DigestNames(digest) ==
    LET at == SelectSeq([i \in 1..Len(digest) |-> i], LAMBDA i : digest[i] = "* ")
    IN  [k \in 1..Len(at) |-> digest[at[k] + 1]]

\* The names of the players of the teams from the t-th on with over 5 minutes.
RECURSIVE NamesOver5(_, _)
NamesOver5(stats, t) ==
    IF t > Len(stats) THEN <<>>
    ELSE LET chosen == SelectSeq(PlayersOf(stats[t]), MinutesOver5)
         IN  [k \in 1..Len(chosen) |-> chosen[k].player.name]
             \o NamesOver5(stats, t + 1)

\* determine_mvp has filtered the statistics it fetched.
Filtered == pc \in {"mvp_llm", "mvp_done"} /\ ~mvp.done

\* C8: the filtered roster holds, team by team and in the order received,
\* exactly the players whose minutes are a number greater than 5, and the
\* digest handed to the model lists exactly these players.
C8_FilterOver5Minutes ==
    Filtered
        => /\ Len(mvp.filtered_stats) = Len(mvp.stats_data)
           /\ \A t \in 1..Len(mvp.stats_data) :
                /\ mvp.filtered_stats[t].team = mvp.stats_data[t].team
                /\ mvp.filtered_stats[t].players
                     = SelectSeq(PlayersOf(mvp.stats_data[t]), MinutesOver5)
           /\ DigestNames(mvp.prompt) = NamesOver5(mvp.stats_data, 1)

\* C8 witness: of a home roster of two, the player with 5 minutes was dropped
\* and the player with 6 minutes kept, and the away player with null minutes
\* was dropped.
C8_Witness ==
    /\ Filtered
    /\ Len(PlayersOf(mvp.stats_data[1])) = 2
    /\ mvp.stats_data[1].players[1].statistics # <<>>
    /\ mvp.stats_data[1].players[2].statistics # <<>>
    /\ mvp.stats_data[1].players[1].statistics[1].games.minutes = 5
    /\ mvp.stats_data[1].players[2].statistics[1].games.minutes = 6
    /\ Len(PlayersOf(mvp.stats_data[2])) = 1
    /\ "statistics" \in DOMAIN mvp.stats_data[2].players[1]
    /\ mvp.stats_data[2].players[1].statistics # <<>>
    /\ "minutes" \notin DOMAIN mvp.stats_data[2].players[1].statistics[1].games
    /\ DigestNames(mvp.prompt) = <<"12">>

\* The player with one key of one group of his statistics taken out.
Without(player, group, key) ==
    [player EXCEPT !.statistics[1][group] =
        [k \in DOMAIN player.statistics[1][group] \ {key} |->
            player.statistics[1][group][k]]]

\* The digest of the filtered roster with the k-th player of team t replaced.
DigestWith(t, k, player) ==
    MvpPrompt(_create_player_summary(
        [mvp.filtered_stats EXCEPT ![t] =
            TeamCopy(mvp.filtered_stats[t],
                     [mvp.filtered_stats[t].players EXCEPT ![k] = player])]))

\* C9: rating is a true optional of the digest: for every player of the
\* digest, a rating that is present with value zero makes the digest differ
\* from the one the same player gives without a rating (the rating clause is
\* appended whenever a rating is present).
C9_ZeroRatingIsNotAbsent ==
    Filtered
        => \A t \in 1..Len(mvp.filtered_stats) :
           \A k \in 1..Len(mvp.filtered_stats[t].players) :
              LET player == mvp.filtered_stats[t].players[k]
              IN  (Has(player.statistics[1].games, "rating")
                        /\ player.statistics[1].games.rating = 0)
                    => mvp.prompt # DigestWith(t, k, Without(player, "games", "rating"))

\* The same of passing accuracy: present with value zero, it makes the digest
\* differ from the one without it.
ZeroAccuracyIsNotAbsent ==
    Filtered
        => \A t \in 1..Len(mvp.filtered_stats) :
           \A k \in 1..Len(mvp.filtered_stats[t].players) :
              LET player == mvp.filtered_stats[t].players[k]
              IN  (Has(player.statistics[1].passes, "accuracy")
                        /\ player.statistics[1].passes.accuracy = 0)
                    => mvp.prompt # DigestWith(t, k, Without(player, "passes", "accuracy"))

\* The number of players of the teams from the t-th on.
RECURSIVE RosterSize(_, _)
RosterSize(stats, t) ==
    IF t > Len(stats) THEN 0 ELSE Len(PlayersOf(stats[t])) + RosterSize(stats, t + 1)

\* determine_mvp returned after a model call that succeeded.
Analysed == pc = "mvp_done" /\ ~mvp.done /\ llm_reply.tag = "return"

\* C10: after a non-empty stats list and a successful model call the result is
\* the completion text followed by the summary line, whose first count is the
\* size of the filtered roster and of the digest and whose second count is the
\* number of fetched players left out of it.
C10_SummaryLineCounts ==
    Analysed
        => LET included == RosterSize(mvp.filtered_stats, 1)
               fetched == RosterSize(net.body.response, 1)
           IN  /\ included = Len(DigestNames(mvp.prompt))
               /\ ret = Return(<<llm_reply.value,
                                 "\n\nAnalysis based on ", ToString(included),
                                 " players (filtered out ", ToString(fetched - included),
                                 " who played <=5 minutes)">>)

\* C10 witness: three players were fetched, two were included and one was
\* filtered out.
C10_Witness ==
    /\ Analysed
    /\ RosterSize(net.body.response, 1) = 3
    /\ ret.value[3] = "2"
    /\ ret.value[5] = "1"
    /\ ret.value[1] = "MVP: 11 - two goals and an assist"

(***************************************************************************)
(* main(): the start-up checks and the interactive loop.  The agent runs   *)
(* the tools in the order the query prescribes: validate_match, then, if   *)
(* the match was found, fetch_match_stats and determine_mvp.  A request or *)
(* model call is issued in one step and completes in a later one.          *)
(***************************************************************************)
ExitWords == {<<"e", "x", "i", "t">>, <<"q", "u", "i", "t">>, <<"q">>}

ConsoleLines ==
    {<<"e", "x", "i", "t">>,
     <<"Q", "u", "I", "t">>,
     <<" ", "Q", " ">>,
     <<>>,
     <<" ", " ">>,
     <<"a", " ", "v", "s", " ", "c">>,
     <<"a", " ", "v", "s", " ", "c", " ", "o", "n", " ",
       "2", "0", "2", "3", "-", "1", "0", "-", "2", "8">>,
     <<"d", " ", "V", " ", "c", " ", "O", "N", " ",
       "2", "0", "2", "4", "-", "1", "3", "-", "9", "9">>}

Environs ==
    [RAPID_API_KEY : {"", "key"}, RAPID_API_HOST : {"", "host"},
     GOOGLE_API_KEY : {"", "your_google_api_key_here", "key"}]

LoopFixtureNets ==
    {[kind |-> "timeout"], HttpResponse(401, Malformed),
     HttpResponse(200, [response |-> SampleFixtures]),
     HttpResponse(200, [errors |-> List(<<>>), response |-> <<>>])}

LoopStatsNets ==
    {[kind |-> "connection"], HttpResponse(429, Malformed),
     HttpResponse(200, [response |-> SampleStats]),
     HttpResponse(200, [errors |-> List(<<>>), response |-> <<>>])}

Init ==
    /\ pc = "start"
    /\ typed = NoTyped
    /\ input_text = <<>>
    /\ parsed_input = None
    /\ QueryIdle
    /\ environ \in Environs
    /\ stdin = "open"
    /\ seen = "none"
    /\ prompts = 0
    /\ printed = "none"
    /\ call = NoCall
    /\ net = NoNet
    /\ mvp = NoLocals
    /\ llm_reply = NoReply
    /\ ret = None

\* create_llm testing the key for the placeholder only.
LlmKeyPlaceholder(env) ==
    env.GOOGLE_API_KEY = "your_google_api_key_here"

\* create_llm raises ValueError.
LlmKeyMissing(env) ==
    env.GOOGLE_API_KEY = "" \/ env.GOOGLE_API_KEY = "your_google_api_key_here"

\* main() up to the loop: it returns when a configuration value is missing.
Startup ==
    /\ pc = "start"
    /\ IF environ.RAPID_API_KEY = "" \/ environ.RAPID_API_HOST = ""
       THEN pc' = "returned" /\ printed' = "config_error"
       ELSE IF LlmKeyMissing(environ)
       THEN pc' = "returned" /\ printed' = "config_error"
       ELSE pc' = "prompt" /\ printed' = "banner"
    /\ UNCHANGED <<parseVars, callVars, queryVars, environ, stdin, seen, prompts>>

\* The loop body going on from a parse failure without its message.
ReadLineUnreported ==
    /\ pc = "prompt"
    /\ stdin = "open"
    /\ prompts < MaxPrompts
    /\ \E line \in ConsoleLines :
         LET user_input == strip(line)
             parsed == parse_user_input(user_input)
         IN  /\ input_text' = user_input
             /\ IF lower(user_input) \in ExitWords
                THEN /\ pc' = "exited"
                     /\ seen' = "exit"
                     /\ printed' = "goodbye"
                     /\ parsed_input' = None
                ELSE IF user_input = <<>>
                THEN /\ pc' = "prompt"
                     /\ printed' = "none"
                     /\ parsed_input' = None
                     /\ seen' = seen
                ELSE IF parsed = None
                THEN /\ pc' = "prompt"
                     /\ printed' = "none"
                     /\ parsed_input' = None
                     /\ seen' = seen
                ELSE /\ pc' = "validate_match"
                     /\ printed' = "none"
                     /\ parsed_input' = parsed
                     /\ seen' = seen
    /\ prompts' = prompts + 1
    /\ tools_run' = <<>>
    /\ agent_fixture_id' = 0
    /\ fixtures_requests' = 0
    /\ players_requests' = 0
    /\ llm_calls' = 0
    /\ pending' = 0
    /\ call' = NoCall
    /\ net' = NoNet
    /\ mvp' = NoLocals
    /\ llm_reply' = NoReply
    /\ ret' = None
    /\ UNCHANGED <<typed, environ, stdin>>

\* One pass of the loop body on a line from input(), up to agent_executor.invoke.
ReadLine ==
    /\ pc = "prompt"
    /\ stdin = "open"
    /\ prompts < MaxPrompts
    /\ \E line \in ConsoleLines :
         LET user_input == strip(line)
             parsed == parse_user_input(user_input)
         IN  /\ input_text' = user_input
             /\ IF lower(user_input) \in ExitWords
                THEN /\ pc' = "exited"
                     /\ seen' = "exit"
                     /\ printed' = "goodbye"
                     /\ parsed_input' = None
                ELSE IF user_input = <<>>
                THEN /\ pc' = "prompt"
                     /\ printed' = "none"
                     /\ parsed_input' = None
                     /\ seen' = seen
                ELSE IF parsed = None
                THEN /\ pc' = "prompt"
                     /\ printed' = "format_error"
                     /\ parsed_input' = None
                     /\ seen' = seen
                ELSE /\ pc' = "validate_match"
                     /\ printed' = "none"
                     /\ parsed_input' = parsed
                     /\ seen' = seen
    /\ prompts' = prompts + 1
    /\ tools_run' = <<>>
    /\ agent_fixture_id' = 0
    /\ fixtures_requests' = 0
    /\ players_requests' = 0
    /\ llm_calls' = 0
    /\ pending' = 0
    /\ call' = NoCall
    /\ net' = NoNet
    /\ mvp' = NoLocals
    /\ llm_reply' = NoReply
    /\ ret' = None
    /\ UNCHANGED <<typed, environ, stdin>>

\* input() meets the end of its input and raises EOFError, which the loop's
\* "except Exception" catches.
ReadEof ==
    /\ pc = "prompt"
    /\ prompts < MaxPrompts
    /\ prompts' = prompts + 1
    /\ stdin' = "eof"
    /\ seen' = "eof"
    /\ printed' = "generic_error"
    /\ pc' = "prompt"
    /\ UNCHANGED <<parseVars, callVars, queryVars, environ>>

InLoop ==
    pc \in {"prompt", "validate_match", "validate_wait", "fetch_match_stats", "fetch_wait",
            "determine_mvp", "mvp_fetch_wait", "mvp_llm_call", "mvp_llm_wait", "report"}

\* KeyboardInterrupt handled like any other exception: the loop goes on.
InterruptContinues ==
    /\ InLoop
    /\ pc' = "prompt"
    /\ seen' = "interrupt"
    /\ printed' = "generic_error"
    /\ pending' = 0
    /\ UNCHANGED <<parseVars, callVars, tools_run, agent_fixture_id, fixtures_requests,
                   players_requests, llm_calls, environ, stdin, prompts>>

\* KeyboardInterrupt reaches the loop's "except KeyboardInterrupt".
Interrupt ==
    /\ InLoop
    /\ pc' = "exited"
    /\ seen' = "interrupt"
    /\ printed' = "goodbye"
    /\ pending' = 0
    /\ UNCHANGED <<parseVars, callVars, tools_run, agent_fixture_id, fixtures_requests,
                   players_requests, llm_calls, environ, stdin, prompts>>

\* An exception of agent_executor.invoke that the loop does not catch.
AgentRaisesUncaught ==
    /\ pc \in {"validate_match", "fetch_match_stats", "determine_mvp", "report"}
    /\ pc' = "exited"
    /\ printed' = "generic_error"
    /\ UNCHANGED <<parseVars, callVars, queryVars, environ, stdin, seen, prompts>>

\* agent_executor.invoke raises outside the tools (the agent's own model call
\* fails); the loop's "except Exception" catches it.
AgentRaises ==
    /\ pc \in {"validate_match", "fetch_match_stats", "determine_mvp", "report"}
    /\ pc' = "prompt"
    /\ printed' = "generic_error"
    /\ UNCHANGED <<parseVars, callVars, queryVars, environ, stdin, seen, prompts>>

\* The validate_match tool on the outcome of its request.
validate_match(team1, team2, date, got) ==
    LET r == find_fixture(team1, team2, date, got)
    IN  IF r.tag = "raise" THEN Return(<<"Error validating match: ", r.exc>>)
        ELSE IF r.value # None
        THEN Return(<<"Match found! Fixture ID: ", ToString(r.value.fixture.id), ", ",
                      r.value.teams.home.name, " vs ", r.value.teams.away.name, " on ",
                      r.value.fixture.date>>)
        ELSE Return(<<"No match found between ", team1, " and ", team2, " on ", date,
                      ". Please check team names and date.">>)

RECURSIVE TeamNames(_, _)
TeamNames(stats, t) ==
    IF t > Len(stats) THEN <<>> ELSE <<stats[t].team.name>> \o TeamNames(stats, t + 1)

RECURSIVE TotalPlayers(_, _)
TotalPlayers(stats, t) ==
    IF t > Len(stats) THEN 0 ELSE Len(PlayersOf(stats[t])) + TotalPlayers(stats, t + 1)

\* The fetch_match_stats tool on the outcome of its request.
fetch_match_stats(fixture_id, got) ==
    LET r == get_player_stats(fixture_id, got)
    IN  IF r.tag = "raise" THEN Return(<<"Error fetching match stats: ", r.exc>>)
        ELSE IF r.value = <<>>
        THEN Return(<<"Error: No player statistics found for fixture ", ToString(fixture_id)>>)
        ELSE Return(<<"Successfully fetched statistics for ", ToString(Len(r.value)),
                      " teams (">> \o TeamNames(r.value, 1)
                    \o <<") with ", ToString(TotalPlayers(r.value, 1)),
                         " total players. Ready for MVP analysis.">>)

\* The agent calls validate_match: find_fixture issues its request.
ValidateIssue ==
    /\ pc = "validate_match"
    /\ call' = [op |-> "validate_match", team1 |-> parsed_input.team1,
                team2 |-> parsed_input.team2, date |-> parsed_input.date]
    /\ fixtures_requests' = fixtures_requests + 1
    /\ pending' = pending + 1
    /\ pc' = "validate_wait"
    /\ UNCHANGED <<parseVars, net, mvp, llm_reply, ret, tools_run, agent_fixture_id,
                   players_requests, llm_calls, loopVars>>

\* The request completes and validate_match returns; the agent goes on to
\* fetch_match_stats when the match was found.
ValidateReturn ==
    /\ pc = "validate_wait"
    /\ \E got \in LoopFixtureNets :
         LET found == find_fixture(call.team1, call.team2, call.date, got)
         IN  /\ net' = got
             /\ ret' = validate_match(call.team1, call.team2, call.date, got)
             /\ IF found.tag = "return" /\ found.value # None
                THEN /\ agent_fixture_id' = found.value.fixture.id
                     /\ pc' = "fetch_match_stats"
                ELSE /\ agent_fixture_id' = agent_fixture_id
                     /\ pc' = "report"
    /\ pending' = pending - 1
    /\ tools_run' = Append(tools_run, "validate_match")
    /\ UNCHANGED <<parseVars, call, mvp, llm_reply, fixtures_requests, players_requests,
                   llm_calls, loopVars>>

\* The agent calls fetch_match_stats: get_player_stats issues its request.
FetchIssue ==
    /\ pc = "fetch_match_stats"
    /\ call' = [op |-> "fetch_match_stats", fixture_id |-> agent_fixture_id]
    /\ players_requests' = players_requests + 1
    /\ pending' = pending + 1
    /\ pc' = "fetch_wait"
    /\ UNCHANGED <<parseVars, net, mvp, llm_reply, ret, tools_run, agent_fixture_id,
                   fixtures_requests, llm_calls, loopVars>>

\* The request completes and fetch_match_stats returns; the agent goes on to
\* determine_mvp.
FetchReturn ==
    /\ pc = "fetch_wait"
    /\ \E got \in LoopStatsNets :
         /\ net' = got
         /\ ret' = fetch_match_stats(call.fixture_id, got)
    /\ pending' = pending - 1
    /\ tools_run' = Append(tools_run, "fetch_match_stats")
    /\ pc' = "determine_mvp"
    /\ UNCHANGED <<parseVars, call, mvp, llm_reply, agent_fixture_id, fixtures_requests,
                   players_requests, llm_calls, loopVars>>

\* determine_mvp working on statistics kept from fetch_match_stats, with no
\* request of its own.
MvpIssueCached ==
    /\ pc = "determine_mvp"
    /\ call' = [op |-> "determine_mvp", fixture_id |-> agent_fixture_id]
    /\ pending' = pending + 1
    /\ pc' = "mvp_fetch_wait"
    /\ UNCHANGED <<parseVars, net, mvp, llm_reply, ret, tools_run, agent_fixture_id,
                   fixtures_requests, players_requests, llm_calls, loopVars>>

\* The agent calls determine_mvp: get_player_stats issues its request.
MvpIssue ==
    /\ pc = "determine_mvp"
    /\ call' = [op |-> "determine_mvp", fixture_id |-> agent_fixture_id]
    /\ players_requests' = players_requests + 1
    /\ pending' = pending + 1
    /\ pc' = "mvp_fetch_wait"
    /\ UNCHANGED <<parseVars, net, mvp, llm_reply, ret, tools_run, agent_fixture_id,
                   fixtures_requests, llm_calls, loopVars>>

\* The request completes: determine_mvp returns when it got no statistics,
\* and else filters and summarises them.
MvpFetchReturn ==
    /\ pc = "mvp_fetch_wait"
    /\ \E got \in LoopStatsNets :
         LET before == MvpBeforeLlm(call.fixture_id, got)
         IN  /\ net' = got
             /\ IF before.done
                THEN /\ mvp' = NoLocals
                     /\ ret' = before.ret
                     /\ tools_run' = Append(tools_run, "determine_mvp")
                     /\ pc' = "report"
                ELSE /\ mvp' = before
                     /\ ret' = None
                     /\ tools_run' = tools_run
                     /\ pc' = "mvp_llm_call"
    /\ pending' = pending - 1
    /\ UNCHANGED <<parseVars, call, llm_reply, agent_fixture_id, fixtures_requests,
                   players_requests, llm_calls, loopVars>>

\* determine_mvp calls llm.invoke on its prompt.
MvpLlmIssue ==
    /\ pc = "mvp_llm_call"
    /\ llm_calls' = llm_calls + 1
    /\ pending' = pending + 1
    /\ pc' = "mvp_llm_wait"
    /\ UNCHANGED <<parseVars, callVars, tools_run, agent_fixture_id, fixtures_requests,
                   players_requests, loopVars>>

\* llm.invoke completes and determine_mvp returns.
MvpLlmReturn ==
    /\ pc = "mvp_llm_wait"
    /\ \E r \in LlmReplies :
         /\ llm_reply' = r
         /\ ret' = MvpAfterLlm(mvp, r)
    /\ pending' = pending - 1
    /\ tools_run' = Append(tools_run, "determine_mvp")
    /\ pc' = "report"
    /\ UNCHANGED <<parseVars, call, net, mvp, agent_fixture_id, fixtures_requests,
                   players_requests, llm_calls, loopVars>>

\* agent_executor.invoke returns and the final message is printed.
Report ==
    /\ pc = "report"
    /\ printed' = "result"
    /\ pc' = "prompt"
    /\ UNCHANGED <<parseVars, callVars, queryVars, environ, stdin, seen, prompts>>

Next ==
    \/ Startup
    \/ ReadLine
    \/ ReadEof
    \/ Interrupt
    \/ AgentRaises
    \/ ValidateIssue
    \/ ValidateReturn
    \/ FetchIssue
    \/ FetchReturn
    \/ MvpIssue
    \/ MvpFetchReturn
    \/ MvpLlmIssue
    \/ MvpLlmReturn
    \/ Report

Spec == Init /\ [][Next]_vars

(***************************************************************************)
(* The loop's claims.                                                      *)
(***************************************************************************)
\* C1: the loop terminates when the user enters an exit keyword (in any letter
\* case) and when input() meets the end of its input: after either event the
\* program is out of the loop, so no further prompt is read and no further
\* query is processed.
C1_ExitOrEofTerminates ==
    seen \in {"exit", "eof"} => pc = "exited"

PrescribedSequence == <<"validate_match", "fetch_match_stats", "determine_mvp">>

\* The agent has run the three tools in the prescribed order for the query.
QueryProcessed ==
    pc = "report" /\ tools_run = PrescribedSequence

\* C2: a parsed query processed by validate_match -> fetch_match_stats ->
\* determine_mvp issues exactly one fixtures-by-date request, exactly one
\* fixtures/players request and exactly one model call, each completed before
\* the next begins (never two in flight).
C2_OneRequestEach ==
    /\ pending \in {0, 1}
    /\ QueryProcessed =>
         /\ fixtures_requests = 1
         /\ players_requests = 1
         /\ llm_calls = 1
         /\ pending = 0

\* C2 as amended: such a query issues exactly one fixtures-by-date request,
\* exactly two fixtures/players requests (fetch_match_stats's and then
\* determine_mvp's own) and at most one model call, none when determine_mvp's
\* request brought no statistics; each is completed before the next begins.
C2_TwoPlayersRequests ==
    /\ pending \in {0, 1}
    /\ QueryProcessed =>
         /\ fixtures_requests = 1
         /\ players_requests = 2
         /\ llm_calls \in {0, 1}
         /\ get_player_stats(call.fixture_id, net) = Return(<<>>) => llm_calls = 0
         /\ pending = 0

\* A query went through the three tools, the model call included.
C2_Witness ==
    /\ QueryProcessed
    /\ players_requests = 2
    /\ llm_calls = 1
    /\ llm_reply.tag = "return"
    /\ pending = 0

\* The step that reads a line from input() and runs the loop body on it.
LineRead ==
    pc = "prompt" /\ prompts' = prompts + 1 /\ stdin' = "open"

\* The line read is no exit keyword and the parser gives None for it.
UnparseableRead ==
    /\ LineRead
    /\ lower(input_text') \notin ExitWords
    /\ parse_user_input(input_text') = None

NothingIssued ==
    /\ fixtures_requests = 0
    /\ players_requests = 0
    /\ llm_calls = 0
    /\ pending = 0

\* C11: for every line read that is no exit keyword and that the parser reports
\* as unparseable, empty and blank lines included, the loop reports a format
\* error, issues no request and no model call, and goes on to the next read.
C11_UnparseableReported ==
    [][UnparseableRead => (printed' = "format_error" /\ pc' = "prompt" /\ NothingIssued')]_vars

\* C11 as amended: such a line, when it is not empty once trimmed, gets the
\* format error; an empty or blank line gets no message at all; either way no
\* request and no model call is issued and the loop goes on to the next read.
C11_UnparseableReportedUnlessBlank ==
    [][UnparseableRead =>
         /\ printed' = (IF input_text' = <<>> THEN "none" ELSE "format_error")
         /\ pc' = "prompt"
         /\ NothingIssued']_vars

\* A malformed, non-empty line was read and answered with the format error.
C11_Witness ==
    /\ pc = "prompt"
    /\ printed = "format_error"
    /\ input_text # <<>>
    /\ parse_user_input(input_text) = None
    /\ NothingIssued

\* C12: an exception raised while a query is processed (by the agent outside
\* the tools, or when the result is taken out) is caught by the loop: the
\* generic error message is shown, the program stays in the loop at input(),
\* and a further line can be read.
C12_ExceptionCaughtLoopContinues ==
    printed = "generic_error" =>
        /\ pc = "prompt"
        /\ (stdin = "open" /\ prompts < MaxPrompts) => ENABLED ReadLine

\* The agent raised after the three tools had run, and the loop is at input().
C12_Witness ==
    /\ printed = "generic_error"
    /\ tools_run = PrescribedSequence
    /\ stdin = "open"
    /\ pc = "prompt"

\* C13: a KeyboardInterrupt delivered while an iteration is in progress aborts
\* that iteration only: afterwards the program is still in the loop, at the
\* prompt for the next query.
C13_InterruptAbortsIterationOnly ==
    [][(InLoop /\ pc # "prompt" /\ seen' = "interrupt") => pc' = "prompt"]_vars

\* C13 as amended: a KeyboardInterrupt delivered while the loop runs, an
\* iteration with a request or model call in flight included, ends the loop:
\* the goodbye message is shown, the call in flight is abandoned and the
\* program leaves the loop, and once left the loop is never entered again.
C13_InterruptEndsLoop ==
    /\ seen = "interrupt" => (pc = "exited" /\ printed = "goodbye" /\ pending = 0)
    /\ pc = "exited" => ~ENABLED Next

\* The interrupt came while fetch_match_stats's request was in flight.
C13_Witness ==
    /\ seen = "interrupt"
    /\ call.op = "fetch_match_stats"
    /\ tools_run = <<"validate_match">>
    /\ players_requests = 1
    /\ pc = "exited"

Required == {"RAPID_API_KEY", "RAPID_API_HOST", "GOOGLE_API_KEY"}

\* C14: when one of RAPID_API_KEY, RAPID_API_HOST and GOOGLE_API_KEY is absent,
\* main() reports an error and returns without entering the loop: no input is
\* read and no request or model call is issued.
C14_MissingConfigNeverLoops ==
    (\E k \in Required : environ[k] = "") =>
        /\ pc \in {"start", "returned"}
        /\ pc = "returned" => printed = "config_error"
        /\ prompts = 0
        /\ input_text = <<>>
        /\ NothingIssued

\* main() returned for the want of GOOGLE_API_KEY alone.
C14_Witness ==
    /\ pc = "returned"
    /\ printed = "config_error"
    /\ environ.RAPID_API_KEY # ""
    /\ environ.RAPID_API_HOST # ""
    /\ environ.GOOGLE_API_KEY = ""
    /\ prompts = 0

====
